---- MODULE Spec2Model ----
(***************************************************************************)
(* Tray tracker: the event log, the settings record, the achievements and *)
(* the server clock, under the procedures of server/routers.ts (tray,      *)
(* settings, compliance, analytics, achievements) over the storage helpers *)
(* of server/db.ts, and the effects of the Home page that call them.       *)
(* Times are integer milliseconds since the epoch; the server's local time *)
(* is UTC + zone with 24 h days, and zone is 0 except where a              *)
(* specification starts it elsewhere.                                      *)
(***************************************************************************)
EXTENDS Integers, Sequences, FiniteSets, TLC

VARIABLES
    events,        \* tray_events table: sequence of rows in insertion order
    now,           \* the server clock, Date.now()
    achievements,  \* achievements table: rows [achievementType, metadata]
    settings,      \* app_settings row: <<>> when missing, <<row>> otherwise
    res,           \* the response of the latest procedure call
    nextId,        \* the number of ids handed out so far, plus one
    zone,          \* the server's time zone: local time minus UTC, in ms
    home,          \* the Home page: its cached settings query data
    calls          \* the checkAndAward invocations in flight: their locals

vars == <<events, now, achievements, settings, res, nextId, zone, home, calls>>

(***************************************************************************)
(* Bounds of the model.                                                    *)
(***************************************************************************)
MaxEvents == 3

\* All timestamps of the model are multiples of Gran milliseconds.
Gran == 60 * 1000

\* DayMs and RecommendedWearTime are 16 and 15 times Common milliseconds.
Common == 90 * 60 * 1000

\* Timestamps a client may send with logEvent (its own clock, so they may be
\* ahead of or behind the server clock).
EventTimes == {0, 600000, 1800000, 86400000, 87000000}

\* Instants at which the server clock is observed.
NowPoints == {0, 600000, 1800000, 3600000, 86400000, 88200000}

\* Date strings (as day numbers since the epoch) passed to getDaily/getHistory.
Dates == {0, 1}

(***************************************************************************)
(* Program constants.                                                      *)
(***************************************************************************)
DayMs == 24 * 60 * 60 * 1000

\* 22.5 * 60 * 60 * 1000
RecommendedWearTime == 45 * 30 * 60 * 1000

(***************************************************************************)
(* Dates.                                                                  *)
(***************************************************************************)
\* new Date("YYYY-MM-DD").getTime(): midnight UTC of the date.
ParseDate(date) == date * DayMs

\* d.setHours(0, 0, 0, 0); d.getTime(): the local midnight at or before t.
StartOfDay(t) == t - ((t + zone) % DayMs)

\* d.toISOString().split("T")[0]: the UTC date of t, as a day number.
DateStr(t) == t \div DayMs

(***************************************************************************)
(* Storage: tray events.                                                   *)
(***************************************************************************)
Range(s) == {s[i] : i \in 1..Len(s)}

\* All enumerations of the set S in descending timestamp order; rows with
\* equal timestamps come in any order (ORDER BY timestamp DESC).
RECURSIVE DescOrders(_)
DescOrders(S) ==
    IF S = {} THEN {<<>>}
    ELSE UNION {{<<e>> \o q : q \in DescOrders(S \ {e})} :
                e \in {x \in S : \A y \in S : x.timestamp >= y.timestamp}}

\* The possible results of getTrayEventsByTimeRange(startTime, endTime).
GetTrayEventsByTimeRange(startTime, endTime) ==
    DescOrders({e \in Range(events) :
                  e.timestamp >= startTime /\ e.timestamp <= endTime})

\* The possible results of getLastTrayEvent(): <<>> for null.
GetLastTrayEvent ==
    IF events = <<>> THEN {<<>>}
    ELSE {<<q[1]>> : q \in DescOrders(Range(events))}

\* arr.sort((a, b) => a.timestamp - b.timestamp): a stable ascending sort.
InsertAsc(s, e) ==
    LET k == Cardinality({i \in 1..Len(s) : s[i].timestamp <= e.timestamp})
    IN  SubSeq(s, 1, k) \o <<e>> \o SubSeq(s, k + 1, Len(s))

RECURSIVE SortAsc(_)
SortAsc(s) ==
    IF s = <<>> THEN <<>>
    ELSE InsertAsc(SortAsc(SubSeq(s, 1, Len(s) - 1)), s[Len(s)])

(***************************************************************************)
(* Requests and responses.  A procedure call leaves its response in res;   *)
(* the client takes it (Deliver) before the next request is served.        *)
(***************************************************************************)
NoCall == [op |-> "none", now |-> 0, entries |-> <<>>, newAchievements |-> <<>>]

Idle == res.op = "none"

Deliver ==
    /\ ~Idle
    /\ res' = NoCall
    /\ UNCHANGED <<events, now, achievements, settings, nextId, zone, home, calls>>

(***************************************************************************)
(* Arithmetic of the responses.                                            *)
(***************************************************************************)
Min(a, b) == IF a <= b THEN a ELSE b
Max(a, b) == IF a >= b THEN a ELSE b

\* Math.round(Math.min(100, (num / den) * 100) * 10) as a count of tenths of
\* a percent, for the quotient num / den of two numbers of milliseconds
\* (each given in units that keep the products small).  JavaScript division
\* by zero gives NaN for 0 / 0 and +-Infinity otherwise; Math.round rounds
\* half up.  den is never negative.
PctTenths(num, den) ==
    IF den = 0
    THEN IF num = 0 THEN [kind |-> "NaN", tenths |-> 0]
         ELSE IF num > 0 THEN [kind |-> "num", tenths |-> 1000]
         ELSE [kind |-> "-Infinity", tenths |-> 0]
    ELSE [kind |-> "num",
          tenths |-> Min(1000, (2 * 1000 * num + den) \div (2 * den))]

\* The target as it would be if it were not pro-rated: 22.5 h whatever the
\* elapsed time.
FullDayTarget(x) == (DayMs \div 16) * 15

\* Math.round(x * 15 / 16) without leaving 32 bits.
Round15Of16(x) == (x \div 16) * 15 + (((x % 16) * 15 * 2 + 16) \div 32)

(***************************************************************************)
(* compliance.getDaily                                                     *)
(***************************************************************************)
\* The loop as it would be if a remove did not overwrite a pending removal.
RECURSIVE ScanEventsFirstRemoveWins(_)
ScanEventsFirstRemoveWins(s) ==
    IF s = <<>> THEN [out |-> 0, last |-> <<>>]
    ELSE LET p == ScanEventsFirstRemoveWins(SubSeq(s, 1, Len(s) - 1))
             e == s[Len(s)]
         IN  IF e.eventType = "remove"
             THEN [out |-> p.out,
                   last |-> IF p.last = <<>> THEN <<e.timestamp>> ELSE p.last]
             ELSE IF e.eventType = "insert" /\ p.last # <<>>
                  THEN [out |-> p.out + (e.timestamp - p.last[1]), last |-> <<>>]
                  ELSE p

\* The for-loop over sortedEvents: totalOutTime and lastRemoveTime (<<>> for
\* null) after the loop.
RECURSIVE ScanEvents(_)
ScanEvents(s) ==
    IF s = <<>> THEN [out |-> 0, last |-> <<>>]
    ELSE LET p == ScanEvents(SubSeq(s, 1, Len(s) - 1))
             e == s[Len(s)]
         IN  IF e.eventType = "remove"
             THEN [out |-> p.out, last |-> <<e.timestamp>>]
             ELSE IF e.eventType = "insert" /\ p.last # <<>>
                  THEN [out |-> p.out + (e.timestamp - p.last[1]), last |-> <<>>]
                  ELSE p

\* The open interval as it would be if it ran to the end of the day whatever
\* the clock says.
OpenOutTimeToEndOfDay(last, endTime, t) ==
    IF last # <<>> THEN endTime - last[1] ELSE 0

\* "If tray is still out at end of day, count until end of day".
OpenOutTime(last, endTime, t) ==
    IF last # <<>> /\ last[1] < Min(t, endTime)
    THEN Min(t, endTime) - last[1]
    ELSE 0

\* The response for the day window [startTime, endTime], given the fetched rows.
DailyResult(fetched, startTime, endTime, t) ==
    LET sorted == SortAsc(fetched)
        sc == ScanEvents(sorted)
        totalOutTime == sc.out + OpenOutTime(sc.last, endTime, t)
        wearTime == DayMs - totalOutTime
    IN  [startTime |-> startTime,
         endTime |-> endTime,
         scanned |-> sorted,
         wearTime |-> wearTime,
         outTime |-> totalOutTime,
         compliancePercentage |->
             PctTenths(wearTime \div Gran, RecommendedWearTime \div Gran),
         recommendedWearTime |-> RecommendedWearTime]

GetDaily ==
    /\ Idle
    /\ \E date \in Dates :
        LET startTime == StartOfDay(ParseDate(date))
            endTime == startTime + DayMs
        IN  \E fetched \in GetTrayEventsByTimeRange(startTime, endTime) :
                res' = [op |-> "getDaily", now |-> now,
                        entries |-> <<DailyResult(fetched, startTime, endTime, now)>>,
                        newAchievements |-> <<>>]
    /\ UNCHANGED <<events, now, achievements, settings, nextId, zone, home, calls>>

(***************************************************************************)
(* compliance.getToday                                                     *)
(***************************************************************************)
\* The loop of getToday as it would be without the clamping: the loop of
\* getDaily.
ScanTodayUnclamped(s, startTime, t) == ScanEvents(s)

\* The for-loop over sortedEvents, each removal period clamped to
\* [startTime, t].
RECURSIVE ScanToday(_, _, _)
ScanToday(s, startTime, t) ==
    IF s = <<>> THEN [out |-> 0, last |-> <<>>]
    ELSE LET p == ScanToday(SubSeq(s, 1, Len(s) - 1), startTime, t)
             e == s[Len(s)]
         IN  IF e.eventType = "remove"
             THEN [out |-> p.out, last |-> <<e.timestamp>>]
             ELSE IF e.eventType = "insert" /\ p.last # <<>>
                  THEN LET effectiveRemoveTime == Max(p.last[1], startTime)
                           effectiveInsertTime == Min(e.timestamp, t)
                       IN  [out |-> IF effectiveInsertTime > effectiveRemoveTime
                                    THEN p.out + (effectiveInsertTime - effectiveRemoveTime)
                                    ELSE p.out,
                            last |-> <<>>]
                  ELSE p

\* "If tray is still out, count from removal time (or start of today) until now".
OpenOutToday(last, startTime, t) ==
    IF last # <<>> /\ t > Max(last[1], startTime)
    THEN t - Max(last[1], startTime)
    ELSE 0

\* Wear time taken from the full day instead of the elapsed part of it.
TodayWearTimeOfFullDay(elapsedToday, totalOutTime) == DayMs - totalOutTime

\* "Calculate wear time (time elapsed today - out time)".
TodayWearTime(elapsedToday, totalOutTime) == elapsedToday - totalOutTime

TodayResult(fetched, startTime, endTime, t) ==
    LET sorted == SortAsc(fetched)
        sc == ScanToday(sorted, startTime, t)
        totalOutTime == sc.out + OpenOutToday(sc.last, startTime, t)
        elapsedToday == Min(t - startTime, DayMs)
        wearTime == TodayWearTime(elapsedToday, totalOutTime)
    IN  [startTime |-> startTime,
         endTime |-> endTime,
         scanned |-> sorted,
         wearTime |-> wearTime,
         outTime |-> totalOutTime,
         compliancePercentage |->
             PctTenths((wearTime \div Gran) * (DayMs \div Common),
                       (elapsedToday \div Gran) * (RecommendedWearTime \div Common)),
         recommendedWearTime |-> RecommendedWearTime,
         elapsedToday |-> elapsedToday,
         proRatedTarget |-> Round15Of16(elapsedToday),
         isCurrentlyOut |-> sc.last # <<>>]

GetToday ==
    /\ Idle
    /\ LET startTime == StartOfDay(now)
           endTime == startTime + DayMs
       IN  \E fetched \in GetTrayEventsByTimeRange(startTime, endTime) :
               res' = [op |-> "getToday", now |-> now,
                       entries |-> <<TodayResult(fetched, startTime, endTime, now)>>,
                       newAchievements |-> <<>>]
    /\ UNCHANGED <<events, now, achievements, settings, nextId, zone, home, calls>>

(***************************************************************************)
(* compliance.getHistory                                                   *)
(***************************************************************************)
\* One pass of the while-loop: the entry pushed for the day window.
HistoryEntry(fetched, startTime, endTime, t) ==
    LET sorted == SortAsc(fetched)
        sc == ScanEvents(sorted)
        totalOutTime == sc.out + OpenOutTime(sc.last, endTime, t)
        wearTime == DayMs - totalOutTime
    IN  [startTime |-> startTime,
         endTime |-> endTime,
         scanned |-> sorted,
         wearTime |-> wearTime,
         outTime |-> totalOutTime,
         compliancePercentage |->
             PctTenths(wearTime \div Gran, RecommendedWearTime \div Gran)]

\* The possible values of results after the while-loop has run from
\* currentDate to end (both in milliseconds).
RECURSIVE HistoryResults(_, _, _)
HistoryResults(currentDate, end, t) ==
    IF currentDate > end THEN {<<>>}
    ELSE LET startTime == StartOfDay(ParseDate(DateStr(currentDate)))
             endTime == startTime + DayMs
         IN  {<<HistoryEntry(fetched, startTime, endTime, t)>> \o rest :
                 fetched \in GetTrayEventsByTimeRange(startTime, endTime),
                 rest \in HistoryResults(currentDate + DayMs, end, t)}

GetHistory ==
    /\ Idle
    /\ \E startDate, endDate \in Dates :
        \E results \in HistoryResults(ParseDate(startDate), ParseDate(endDate), now) :
            res' = [op |-> "getHistory", now |-> now, entries |-> results,
                    newAchievements |-> <<>>]
    /\ UNCHANGED <<events, now, achievements, settings, nextId, zone, home, calls>>

(***************************************************************************)
(* Storage: achievements and settings.                                     *)
(***************************************************************************)
\* getRecentTrayEvents(limit): the possible results, newest first.
GetRecentTrayEvents(limit) ==
    {SubSeq(q, 1, Min(limit, Len(q))) : q \in DescOrders(Range(events))}

\* getAllAchievements(): the rows of the achievements table.
GetAllAchievements == achievements

\* insertAchievement(achievement) for each achievement of list, in order.
InsertAchievements(list) == achievements \o list

\* getAppSettings(): <<>> for null.
GetAppSettings == settings

(***************************************************************************)
(* Storage and procedures of the settings router.  The row is              *)
(* [currentTrayNumber, totalTrays, nextTrayChangeTime, lastTrayChangeTime],*)
(* lastTrayChangeTime being <<>> for null and <<t>> otherwise.             *)
(***************************************************************************)
WeekMs == 7 * DayMs

\* now.getDay(): 0 = Sunday; 1 January 1970 was a Thursday.
GetDay(t) == (4 + ((t + zone) \div DayMs)) % 7

\* The helper as it would be without "|| 7" and without the step to the next
\* week: on a Tuesday it answers 7pm of that day.
GetTuesdayAt7PMOfThisWeek(t) ==
    StartOfDay(t) + ((2 - GetDay(t) + 7) % 7) * DayMs + 19 * 60 * 60 * 1000

\* getNextTuesdayAt7PM() called at t.
GetNextTuesdayAt7PM(t) ==
    LET d == (2 - GetDay(t) + 7) % 7
        daysUntilTuesday == IF d = 0 THEN 7 ELSE d
        nextTuesday == StartOfDay(t) + daysUntilTuesday * DayMs + 19 * 60 * 60 * 1000
    IN  IF nextTuesday <= t THEN nextTuesday + WeekMs ELSE nextTuesday

\* The helper as it would be if the conflict clause wrote the whole row.
InitializeAppSettingsOverwriting(row, nextTrayChangeTime) ==
    <<[currentTrayNumber |-> 2,
       totalTrays |-> 16,
       nextTrayChangeTime |-> nextTrayChangeTime,
       lastTrayChangeTime |-> <<>>]>>

\* initializeAppSettings(nextTrayChangeTime) on the row: an insert, or on
\* conflict an update of updatedAt alone.
InitializeAppSettings(row, nextTrayChangeTime) ==
    IF row = <<>>
    THEN <<[currentTrayNumber |-> 2,
            totalTrays |-> 16,
            nextTrayChangeTime |-> nextTrayChangeTime,
            lastTrayChangeTime |-> <<>>]>>
    ELSE row

\* updateAppSettings(updates) on the row; a field of updates is <<>> when it
\* is absent and <<v>> when it is v.  No row, no update.
UpdateAppSettings(row, updates) ==
    IF row = <<>> THEN row
    ELSE <<[currentTrayNumber |->
                IF updates.currentTrayNumber = <<>> THEN row[1].currentTrayNumber
                ELSE updates.currentTrayNumber[1],
            totalTrays |-> row[1].totalTrays,
            nextTrayChangeTime |->
                IF updates.nextTrayChangeTime = <<>> THEN row[1].nextTrayChangeTime
                ELSE updates.nextTrayChangeTime[1],
            lastTrayChangeTime |->
                IF updates.lastTrayChangeTime = <<>> THEN row[1].lastTrayChangeTime
                ELSE updates.lastTrayChangeTime[1]]>>

NoUpdates ==
    [currentTrayNumber |-> <<>>, nextTrayChangeTime |-> <<>>, lastTrayChangeTime |-> <<>>]

\* The number as it would be without the comparison with totalTrays.
NewTrayNumberUnbounded(row) == row[1].currentTrayNumber + 1

\* The newTrayNumber of incrementTrayNumber() on an existing row.
NewTrayNumber(row) ==
    IF row[1].currentTrayNumber >= row[1].totalTrays
    THEN row[1].totalTrays
    ELSE row[1].currentTrayNumber + 1

\* incrementTrayNumber() on an existing row at t.
IncrementTrayNumber(row, t) ==
    UpdateAppSettings(row, [NoUpdates EXCEPT !.currentTrayNumber = <<NewTrayNumber(row)>>,
                                             !.lastTrayChangeTime = <<<<t>>>>])

\* settings.get
SettingsGet ==
    /\ Idle
    /\ LET row == IF GetAppSettings = <<>>
                  THEN InitializeAppSettings(GetAppSettings, GetNextTuesdayAt7PM(now))
                  ELSE GetAppSettings
       IN  /\ settings' = row
           /\ res' = [op |-> "settings.get", now |-> now, entries |-> <<>>,
                      newAchievements |-> <<>>, before |-> settings, result |-> row]
    /\ UNCHANGED <<events, now, achievements, nextId, zone, home, calls>>

\* settings.updateNextChangeTime, the input drawn from times.
UpdateNextChangeTimeOver(times) ==
    /\ Idle
    /\ \E nextChangeTime \in times :
         /\ settings' = UpdateAppSettings(settings,
                            [NoUpdates EXCEPT !.nextTrayChangeTime = <<nextChangeTime>>])
         /\ res' = [op |-> "settings.updateNextChangeTime", now |-> now,
                    entries |-> <<>>, newAchievements |-> <<>>, before |-> settings]
    /\ UNCHANGED <<events, now, achievements, nextId, zone, home, calls>>

\* The test as it would be if every check incremented.
ChangeAlwaysDue(row, t) == TRUE

\* "Check if it's time to increment", for an existing row at t.
ChangeDue(row, t) == t >= row[1].nextTrayChangeTime

\* settings.checkAndUpdateTray
CheckAndUpdateTray ==
    /\ Idle
    /\ LET row == IF GetAppSettings = <<>>
                  THEN InitializeAppSettings(GetAppSettings, GetNextTuesdayAt7PM(now))
                  ELSE GetAppSettings
       IN  IF ChangeDue(row, now)
           THEN LET nextChangeTime == GetNextTuesdayAt7PM(now)
                IN  /\ settings' = UpdateAppSettings(IncrementTrayNumber(row, now),
                                       [NoUpdates EXCEPT
                                           !.nextTrayChangeTime = <<nextChangeTime>>])
                    /\ res' = [op |-> "settings.checkAndUpdateTray", now |-> now,
                               entries |-> <<>>, newAchievements |-> <<>>,
                               before |-> settings,
                               changed |-> TRUE,
                               newTrayNumber |-> NewTrayNumber(row),
                               nextChangeTime |-> nextChangeTime]
           ELSE /\ settings' = row
                /\ res' = [op |-> "settings.checkAndUpdateTray", now |-> now,
                           entries |-> <<>>, newAchievements |-> <<>>,
                           before |-> settings,
                           changed |-> FALSE,
                           newTrayNumber |-> row[1].currentTrayNumber,
                           nextChangeTime |-> row[1].nextTrayChangeTime]
    /\ UNCHANGED <<events, now, achievements, nextId, zone, home, calls>>

\* settings.update, each optional input absent or drawn from trays, times.
SettingsUpdateOver(trays, times) ==
    /\ Idle
    /\ \E currentTrayNumber \in {<<>>} \cup {<<n>> : n \in trays},
          nextTrayChangeTime \in {<<>>} \cup {<<t>> : t \in times} :
         /\ settings' = UpdateAppSettings(settings,
                            [NoUpdates EXCEPT !.currentTrayNumber = currentTrayNumber,
                                              !.nextTrayChangeTime = nextTrayChangeTime])
         /\ res' = [op |-> "settings.update", now |-> now, entries |-> <<>>,
                    newAchievements |-> <<>>, before |-> settings,
                    input |-> [currentTrayNumber |-> currentTrayNumber,
                               nextTrayChangeTime |-> nextTrayChangeTime]]
    /\ UNCHANGED <<events, now, achievements, nextId, zone, home, calls>>

(***************************************************************************)
(* achievements.checkAndAward                                              *)
(***************************************************************************)
RecentLimit == 100

\* 5 * 60 * 1000
FiveMinutes == 5 * 60 * 1000

\* Math.min(100, (num / den) * 100) >= pct, for den > 0.
PctAtLeast(num, den, pct) == num * 100 >= pct * den

\* "Calculate today's compliance": totalOutTime, wearTime and whether the
\* compliance reaches 95 %, given the rows fetched for today.
PerfectDay(fetched, startTime, endTime, t) ==
    LET sorted == SortAsc(fetched)
        sc == ScanEvents(sorted)
        totalOutTime == IF sc.last # <<>> THEN sc.out + (t - sc.last[1]) ELSE sc.out
        wearTime == (t - startTime) - totalOutTime
    IN  [site |-> "perfect_day",
         startTime |-> startTime,
         endTime |-> endTime,
         scanned |-> sorted,
         wearTime |-> wearTime,
         outTime |-> totalOutTime,
         qualifies |-> PctAtLeast(wearTime \div Gran, RecommendedWearTime \div Gran, 95),
         \* Math.round(compliancePercentage)
         rounded |-> Min(100, (2 * 100 * (wearTime \div Gran) + (RecommendedWearTime \div Gran))
                              \div (2 * (RecommendedWearTime \div Gran)))]

\* The pass as it would be if today were measured against the full-day
\* target like the days before it.
StreakDayFixedTarget(fetched, daysAgo, dayStart, dayEnd, t) ==
    LET sorted == SortAsc(fetched)
        sc == ScanEvents(sorted)
        dayOutTime == sc.out + OpenOutTime(sc.last, dayEnd, t)
        dayWearTime == (IF daysAgo = 0 THEN Min(t - dayStart, DayMs) ELSE DayMs)
                       - dayOutTime
    IN  [site |-> "streak",
         daysAgo |-> daysAgo,
         startTime |-> dayStart,
         endTime |-> dayEnd,
         scanned |-> sorted,
         wearTime |-> dayWearTime,
         outTime |-> dayOutTime,
         qualifies |-> PctAtLeast(dayWearTime \div Gran,
                                  RecommendedWearTime \div Gran, 85)]

\* One pass of the streak loop: dayOutTime, dayWearTime and whether
\* dayCompliance >= minCompliance, given the rows fetched for the day.
StreakDay(fetched, daysAgo, dayStart, dayEnd, t) ==
    LET sorted == SortAsc(fetched)
        sc == ScanEvents(sorted)
        dayOutTime == sc.out + OpenOutTime(sc.last, dayEnd, t)
        dayWearTime == (IF daysAgo = 0 THEN Min(t - dayStart, DayMs) ELSE DayMs)
                       - dayOutTime
        \* dayWearTime / dayRecommendedWearTime as a quotient num / den
        num == IF daysAgo = 0 THEN (dayWearTime \div Gran) * (DayMs \div Common)
               ELSE dayWearTime \div Gran
        den == IF daysAgo = 0
               THEN ((t - dayStart) \div Gran) * (RecommendedWearTime \div Common)
               ELSE RecommendedWearTime \div Gran
    IN  [site |-> "streak",
         daysAgo |-> daysAgo,
         startTime |-> dayStart,
         endTime |-> dayEnd,
         scanned |-> sorted,
         wearTime |-> dayWearTime,
         outTime |-> dayOutTime,
         qualifies |-> IF den > 0 THEN PctAtLeast(num, den, 85) ELSE 0 >= 85]

\* The possible runs of the streak loop from daysAgo on: the days evaluated,
\* up to and including the first one below minCompliance.
RECURSIVE StreakRuns(_, _)
StreakRuns(daysAgo, t) ==
    IF daysAgo >= 3 THEN {<<>>}
    ELSE LET dayStart == StartOfDay(t - daysAgo * DayMs)
             dayEnd == dayStart + DayMs
         IN  UNION {LET day == StreakDay(fetched, daysAgo, dayStart, dayEnd, t)
                    IN  IF day.qualifies
                        THEN {<<day>> \o rest : rest \in StreakRuns(daysAgo + 1, t)}
                        ELSE {<<day>>} :
                    fetched \in GetTrayEventsByTimeRange(dayStart, dayEnd)}

StreakCount(run) == Cardinality({i \in 1..Len(run) : run[i].qualifies})

\* The loop as it would be if the pair's tray numbers were not compared.
QuickPairsOfAnyTray(recentEvents) ==
    {i \in 1..(Len(recentEvents) - 1) :
        /\ recentEvents[i].eventType = "remove"
        /\ recentEvents[i + 1].eventType = "insert"
        /\ recentEvents[i + 1].timestamp - recentEvents[i].timestamp < FiveMinutes}

\* The quick-return loop over recentEvents: the durations of the adjacent
\* remove -> insert pairs of one tray that are shorter than five minutes,
\* by position of the remove.
QuickPairs(recentEvents) ==
    {i \in 1..(Len(recentEvents) - 1) :
        /\ recentEvents[i].eventType = "remove"
        /\ recentEvents[i + 1].eventType = "insert"
        /\ recentEvents[i].trayNumber = recentEvents[i + 1].trayNumber
        /\ recentEvents[i + 1].timestamp - recentEvents[i].timestamp < FiveMinutes}

MinOf(S) == CHOOSE x \in S : \A y \in S : x <= y

\* allEvents.slice(0, 100).sort((a, b) => a.timestamp - b.timestamp)
RecentEvents(allEvents) ==
    SortAsc(SubSeq(allEvents, 1, Min(RecentLimit, Len(allEvents))))

QuickReturn(allEvents, existingTypes) ==
    LET recentEvents == RecentEvents(allEvents)
        hits == QuickPairs(recentEvents)
    IN  IF hits # {} /\ "quick_return" \notin existingTypes
        THEN <<[achievementType |-> "quick_return",
                metadata |-> recentEvents[MinOf(hits) + 1].timestamp
                             - recentEvents[MinOf(hits)].timestamp]>>
        ELSE <<>>

\* The check as it would be if it asked for tray n exactly.
MilestoneAtTray(row, n, type, existingTypes) ==
    IF row # <<>> /\ row[1].currentTrayNumber = n /\ type \notin existingTypes
    THEN <<[achievementType |-> type, metadata |-> n]>>
    ELSE <<>>

\* "Check for tray milestones": one of the three checks.
Milestone(row, n, type, existingTypes) ==
    IF row # <<>> /\ row[1].currentTrayNumber >= n /\ type \notin existingTypes
    THEN <<[achievementType |-> type, metadata |-> n]>>
    ELSE <<>>

\* The achievements the call awards, in the order it inserts them.
NewAchievements(perfect, run, allEvents, existingTypes, row) ==
    (IF perfect.qualifies /\ "perfect_day" \notin existingTypes
     THEN <<[achievementType |-> "perfect_day",
             metadata |-> perfect.rounded]>>
     ELSE <<>>)
    \o (IF "streak_3" \notin existingTypes /\ StreakCount(run) >= 3
        THEN <<[achievementType |-> "streak_3", metadata |-> 3]>>
        ELSE <<>>)
    \o QuickReturn(allEvents, existingTypes)
    \o Milestone(row, 5, "milestone_tray_5", existingTypes)
    \o Milestone(row, 10, "milestone_tray_10", existingTypes)
    \o Milestone(row, 15, "milestone_tray_15", existingTypes)

\* The possible outcomes of one call: what it computes and what it awards.
AwardOutcomes ==
    LET existingTypes == {GetAllAchievements[i].achievementType :
                             i \in 1..Len(GetAllAchievements)}
        startTime == StartOfDay(now)
        endTime == startTime + DayMs
    IN  UNION {
          {LET perfect == PerfectDay(todayEvents, startTime, endTime, now)
           IN  [entries |-> <<perfect>> \o run,
                recentEvents |-> RecentEvents(allEvents),
                newAchievements |-> NewAchievements(perfect, run, allEvents,
                                                    existingTypes, GetAppSettings)] :
             run \in IF "streak_3" \in existingTypes THEN {<<>>} ELSE StreakRuns(0, now)} :
          allEvents \in GetRecentTrayEvents(10000),
          todayEvents \in GetTrayEventsByTimeRange(startTime, endTime)}

CheckAndAward ==
    /\ Idle
    /\ \E outcome \in AwardOutcomes :
         /\ achievements' = InsertAchievements(outcome.newAchievements)
         /\ res' = [op |-> "checkAndAward", now |-> now,
                    entries |-> outcome.entries,
                    newAchievements |-> outcome.newAchievements,
                    recentEvents |-> outcome.recentEvents]
    /\ UNCHANGED <<events, now, settings, nextId, zone, home, calls>>

(***************************************************************************)
(* analytics.byTray and analytics.byTimePeriod                             *)
(***************************************************************************)
\* getRecentTrayEvents(10000)
AnalyticsLimit == 10000

\* The loop as it would be if it counted only the removes that an insert
\* closes.
RECURSIVE ScanGroupCountingClosed(_)
ScanGroupCountingClosed(s) ==
    IF s = <<>> THEN [removeCount |-> 0, totalDuration |-> 0, last |-> <<>>]
    ELSE LET p == ScanGroupCountingClosed(SubSeq(s, 1, Len(s) - 1))
             e == s[Len(s)]
         IN  IF e.eventType = "remove"
             THEN [p EXCEPT !.last = <<e.timestamp>>]
             ELSE IF e.eventType = "insert" /\ p.last # <<>>
                  THEN [removeCount |-> p.removeCount + 1,
                        totalDuration |-> p.totalDuration + (e.timestamp - p.last[1]),
                        last |-> <<>>]
                  ELSE p

\* The for-loop over a group's sortedEvents: removeCount, totalDuration and
\* lastRemoveTime (<<>> for null) after the loop.
RECURSIVE ScanGroup(_)
ScanGroup(s) ==
    IF s = <<>> THEN [removeCount |-> 0, totalDuration |-> 0, last |-> <<>>]
    ELSE LET p == ScanGroup(SubSeq(s, 1, Len(s) - 1))
             e == s[Len(s)]
         IN  IF e.eventType = "remove"
             THEN [p EXCEPT !.removeCount = @ + 1, !.last = <<e.timestamp>>]
             ELSE IF e.eventType = "insert" /\ p.last # <<>>
                  THEN [p EXCEPT !.totalDuration = @ + (e.timestamp - p.last[1]),
                                 !.last = <<>>]
                  ELSE p

RECURSIVE Gcd(_, _)
Gcd(a, b) == IF b = 0 THEN a ELSE Gcd(b, a % b)

\* The number num / den (den > 0, num >= 0 or not) as a fraction in lowest
\* terms.
Quotient(num, den) ==
    LET g == Gcd(IF num < 0 THEN -num ELSE num, den)
    IN  [num |-> num \div g, den |-> den \div g]

\* The statistics of one group, its events in the order they were fetched.
GroupStats(key, groupEvents) ==
    LET sortedEvents == SortAsc(groupEvents)
        sc == ScanGroup(sortedEvents)
    IN  [key |-> key,
         scanned |-> sortedEvents,
         removeCount |-> sc.removeCount,
         totalDuration |-> sc.totalDuration,
         avgDuration |-> IF sc.removeCount > 0
                         THEN Quotient(sc.totalDuration, sc.removeCount)
                         ELSE Quotient(0, 1)]

\* The keys of K in ascending order: results.sort(...) by trayNumber or by
\* period (the labels of one grouping compare as their dates do).
RECURSIVE AscKeys(_)
AscKeys(K) ==
    IF K = {} THEN <<>>
    ELSE LET k == CHOOSE x \in K : \A y \in K : x <= y
         IN  <<k>> \o AscKeys(K \ {k})

\* The rows of fetched whose key is k, in the order fetched; keyOf[i] is the
\* key of fetched[i].
RECURSIVE GroupEvents(_, _, _)
GroupEvents(fetched, keyOf, k) ==
    IF fetched = <<>> THEN <<>>
    ELSE LET n == Len(fetched)
             rest == GroupEvents(SubSeq(fetched, 1, n - 1), keyOf, k)
         IN  IF keyOf[n] = k THEN Append(rest, fetched[n]) ELSE rest

\* The groups of the fetched rows, each with its statistics, in ascending
\* key order.
GroupResults(fetched, keyOf) ==
    LET keys == AscKeys({keyOf[i] : i \in 1..Len(fetched)})
    IN  [j \in 1..Len(keys) |->
            GroupStats(keys[j], GroupEvents(fetched, keyOf, keys[j]))]

\* analytics.byTray
ByTray ==
    /\ Idle
    /\ \E fetched \in GetRecentTrayEvents(AnalyticsLimit) :
           res' = [op |-> "analytics.byTray", now |-> now, entries |-> <<>>,
                   newAchievements |-> <<>>,
                   fetched |-> fetched,
                   groups |-> GroupResults(fetched,
                                  [i \in 1..Len(fetched) |-> fetched[i].trayNumber])]
    /\ UNCHANGED <<events, now, achievements, settings, nextId, zone, home, calls>>

\* The month of the local date of t as its distance from January 1970, for
\* t between December 1969 and March 1970:
\* `${date.getFullYear()}-${String(date.getMonth() + 1).padStart(2, "0")}`.
LocalMonth(t) ==
    LET d == (t + zone) \div DayMs
    IN  IF d < 0 THEN -1 ELSE IF d < 31 THEN 0 ELSE IF d < 59 THEN 1 ELSE 2

\* weekStart.setDate(date.getDate() - date.getDay()): the instant getDay()
\* local days before t, at the same local time of day.
WeekStart(t) == t - GetDay(t) * DayMs

\* periodKey of an event at t: a UTC date for "day", the UTC date of
\* weekStart for "week", the local month for "month".
PeriodKey(groupBy, t) ==
    IF groupBy = "day" THEN DateStr(t)
    ELSE IF groupBy = "week" THEN DateStr(WeekStart(t))
    ELSE LocalMonth(t)

\* analytics.byTimePeriod, startTime and endTime drawn from starts and ends.
ByTimePeriodOver(starts, ends) ==
    /\ Idle
    /\ \E startTime \in starts, endTime \in ends, groupBy \in {"day", "week", "month"} :
         \E fetched \in GetTrayEventsByTimeRange(startTime, endTime) :
           res' = [op |-> "analytics.byTimePeriod", now |-> now, entries |-> <<>>,
                   newAchievements |-> <<>>,
                   groupBy |-> groupBy,
                   fetched |-> fetched,
                   groups |-> GroupResults(fetched,
                                  [i \in 1..Len(fetched) |->
                                      PeriodKey(groupBy, fetched[i].timestamp)])]
    /\ UNCHANGED <<events, now, achievements, settings, nextId, zone, home, calls>>

(***************************************************************************)
(* tray.logEvent and the passing of time                                   *)
(***************************************************************************)
\* The tray number the Home page sends: settings?.currentTrayNumber || 2.
ClientTrayNumber == IF settings = <<>> THEN 2 ELSE settings[1].currentTrayNumber

\* insertTrayEvent(event): the new row of the table.
InsertTrayEvent(event) == Append(events, event)

\* logEvent with a fresh id (nanoid()), at most max times, the input's
\* timestamp drawn from times and its trayNumber from trays.
LogEventInput(max, times, trays) ==
    /\ Idle
    /\ nextId <= max
    /\ \E eventType \in {"remove", "insert"}, timestamp \in times, trayNumber \in trays :
           events' = InsertTrayEvent([id |-> nextId,
                                      trayNumber |-> trayNumber,
                                      eventType |-> eventType,
                                      timestamp |-> timestamp])
    /\ nextId' = nextId + 1
    /\ UNCHANGED <<now, achievements, settings, res, zone, home, calls>>

\* logEvent as the Home page calls it.
LogEventOver(max, times) == LogEventInput(max, times, {ClientTrayNumber})

LogEventUpTo(max) == LogEventOver(max, EventTimes)

LogEvent == LogEventUpTo(MaxEvents)

\* The server clock moves on to a later instant of points.
TickOver(points) ==
    /\ Idle
    /\ \E t \in points : t > now /\ now' = t
    /\ UNCHANGED <<events, achievements, settings, res, nextId, zone, home, calls>>

Tick == TickOver(NowPoints)

Init ==
    /\ events = <<>>
    /\ now = 0
    /\ achievements = <<>>
    /\ settings = <<>>
    /\ res = NoCall
    /\ nextId = 1
    /\ zone = 0
    /\ home = [settings |-> <<>>]
    /\ calls = <<>>

Next ==
    \/ LogEvent
    \/ Tick
    \/ GetDaily
    \/ GetToday
    \/ GetHistory
    \/ Deliver

Spec == Init /\ [][Next]_vars

\* The same with achievements.checkAndAward, over a shorter log.
MaxAwardEvents == 2

LogEventAward == LogEventUpTo(MaxAwardEvents)

NextAward ==
    \/ LogEventAward
    \/ Tick
    \/ GetDaily
    \/ GetToday
    \/ GetHistory
    \/ CheckAndAward
    \/ Deliver

SpecAward == Init /\ [][NextAward]_vars

(***************************************************************************)
(* tray.cancelRemoveEvent                                                  *)
(***************************************************************************)
\* 60 * 1000
SixtySeconds == 60 * 1000

\* getTrayEventById(id): <<>> for no row.
GetTrayEventById(id) ==
    IF \E k \in 1..Len(events) : events[k].id = id
    THEN <<events[CHOOSE k \in 1..Len(events) : events[k].id = id]>>
    ELSE <<>>

\* deleteTrayEvent(id): the table without the row.
DeleteTrayEvent(id) ==
    LET Keep(e) == e.id # id IN SelectSeq(events, Keep)

\* The error cancelRemoveEvent throws for the row found, "" for none.
CancelError(found, t) ==
    IF found = <<>> THEN "Event not found"
    ELSE IF found[1].eventType # "remove" THEN "Can only cancel remove events"
    ELSE IF t - found[1].timestamp > SixtySeconds
         THEN "Can only cancel events within 60 seconds"
    ELSE ""

\* tray.cancelRemoveEvent, for an id that was handed out or one that never was.
CancelRemoveEvent ==
    /\ Idle
    /\ \E eventId \in 1..nextId :
         LET error == CancelError(GetTrayEventById(eventId), now)
         IN  /\ events' = IF error = "" THEN DeleteTrayEvent(eventId) ELSE events
             /\ res' = [op |-> "tray.cancelRemoveEvent", now |-> now, entries |-> <<>>,
                        newAchievements |-> <<>>, eventId |-> eventId,
                        before |-> events, error |-> error]
    /\ UNCHANGED <<now, achievements, settings, nextId, zone, home, calls>>

(***************************************************************************)
(* Logging and cancelling on the scale of the grace window.  The rows      *)
(* carry the created_at column (defaultNow()) that this specification's    *)
(* properties read.                                                        *)
(***************************************************************************)
MaxCancelEvents == 3

\* Timestamps a client sends, and instants of the server clock.
CancelStamps == {0, 60000, 180000}

CancelPoints == {0, 30000, 60000, 90000, 120000, 180000}

LogEventCreated ==
    /\ Idle
    /\ nextId <= MaxCancelEvents
    /\ \E eventType \in {"remove", "insert"}, timestamp \in CancelStamps :
           events' = InsertTrayEvent([id |-> nextId,
                                      trayNumber |-> ClientTrayNumber,
                                      eventType |-> eventType,
                                      timestamp |-> timestamp,
                                      createdAt |-> now])
    /\ nextId' = nextId + 1
    /\ UNCHANGED <<now, achievements, settings, res, zone, home, calls>>

TickSeconds == TickOver(CancelPoints)

NextCancel ==
    \/ LogEventCreated
    \/ TickSeconds
    \/ CancelRemoveEvent
    \/ Deliver

SpecCancel == Init /\ [][NextCancel]_vars

(***************************************************************************)
(* logEvent with any tray number of its input, and checkAndAward, at the   *)
(* scale of the five minutes of a quick return: the server clock reads     *)
(* local midnight and the events are stamped in the minutes before it.     *)
(***************************************************************************)
MaxQuickEvents == 4

QuickTimes == {-360000, -300000, -60000}

QuickTrays == {2, 3}

LogEventQuick == LogEventInput(MaxQuickEvents, QuickTimes, QuickTrays)

NextQuick ==
    \/ LogEventQuick
    \/ CheckAndAward
    \/ Deliver

SpecQuick == Init /\ [][NextQuick]_vars

(***************************************************************************)
(* Every mutation of the application together, over a short log.           *)
(***************************************************************************)
MaxAppEvents == 2

AppEventTimes == {0, 60000, 300000}

AppNowPoints == {0, 22 * 60 * 60 * 1000, 5 * DayMs + 19 * 60 * 60 * 1000}

AppTrays == {10, 15}

LogEventApp == LogEventOver(MaxAppEvents, AppEventTimes)

TickApp == TickOver(AppNowPoints)

SettingsUpdateApp == SettingsUpdateOver(AppTrays, {})

NextApp ==
    \/ LogEventApp
    \/ CancelRemoveEvent
    \/ SettingsGet
    \/ CheckAndUpdateTray
    \/ SettingsUpdateApp
    \/ CheckAndAward
    \/ TickApp
    \/ Deliver

SpecApp == Init /\ [][NextApp]_vars

(***************************************************************************)
(* The settings router on its own, over several weeks.                     *)
(***************************************************************************)
\* Tuesday 6 January 1970 at 19:00, the first change time after the epoch.
FirstTuesday7PM == 5 * DayMs + 19 * 60 * 60 * 1000

\* Instants at which the server clock is observed.
WeekPoints ==
    {0, 60000, FirstTuesday7PM - 60000, FirstTuesday7PM, FirstTuesday7PM + 60000,
     FirstTuesday7PM + WeekMs, FirstTuesday7PM + WeekMs + DayMs}

\* Tray numbers a client passes to settings.update (the input allows 1..16).
SettingsTrays == {1, 9, 15, 16}

\* Change times a client passes to settings.update and updateNextChangeTime.
ChangeTimes == {60000, FirstTuesday7PM + DayMs}

TickWeeks == TickOver(WeekPoints)

UpdateNextChangeTime == UpdateNextChangeTimeOver(ChangeTimes)

SettingsUpdate == SettingsUpdateOver(SettingsTrays, ChangeTimes)

NextSettings ==
    \/ SettingsGet
    \/ UpdateNextChangeTime
    \/ CheckAndUpdateTray
    \/ SettingsUpdate
    \/ TickWeeks
    \/ Deliver

SpecSettings == Init /\ [][NextSettings]_vars

\* The same with achievements.checkAndAward, for the tray milestones.
NextMilestones ==
    \/ SettingsGet
    \/ UpdateNextChangeTime
    \/ CheckAndUpdateTray
    \/ SettingsUpdate
    \/ CheckAndAward
    \/ TickWeeks
    \/ Deliver

SpecMilestones == Init /\ [][NextMilestones]_vars

(***************************************************************************)
(* The analytics procedures over a log of two trays, the server two hours  *)
(* west of UTC.  The rows come back ordered by timestamp, so the log is    *)
(* written in timestamp order here.                                        *)
(***************************************************************************)
MaxAnalyticsEvents == 4

AnalyticsTimes == {0, 100000, 7200000, 7400000}

AnalyticsTrays == {3, 4}

ZoneOffsets == {-7200000}

LogEventAnalytics ==
    LogEventInput(MaxAnalyticsEvents,
                  {t \in AnalyticsTimes : \A e \in Range(events) : e.timestamp <= t},
                  AnalyticsTrays)

ByTimePeriod == ByTimePeriodOver({0}, {7200000})

InitAnalytics ==
    /\ events = <<>>
    /\ now = 0
    /\ achievements = <<>>
    /\ settings = <<>>
    /\ res = NoCall
    /\ nextId = 1
    /\ zone \in ZoneOffsets
    /\ home = [settings |-> <<>>]
    /\ calls = <<>>

NextAnalytics ==
    \/ LogEventAnalytics
    \/ ByTray
    \/ ByTimePeriod
    \/ Deliver

SpecAnalytics == InitAnalytics /\ [][NextAnalytics]_vars

(***************************************************************************)
(* tray.getLastEvent, and the compliance of a day over a log in which      *)
(* timestamps repeat.                                                      *)
(***************************************************************************)
\* tray.getLastEvent
GetLastEvent ==
    /\ Idle
    /\ \E last \in GetLastTrayEvent :
           res' = [op |-> "tray.getLastEvent", now |-> now, entries |-> <<>>,
                   newAchievements |-> <<>>, result |-> last]
    /\ UNCHANGED <<events, now, achievements, settings, nextId, zone, home, calls>>

MaxOrderEvents == 3

OrderTimes == {0, 600000}

OrderPoints == {0, 600000, 1800000}

LogEventOrder == LogEventOver(MaxOrderEvents, OrderTimes)

TickOrder == TickOver(OrderPoints)

NextOrder ==
    \/ LogEventOrder
    \/ TickOrder
    \/ GetDaily
    \/ GetLastEvent
    \/ Deliver

SpecOrder == Init /\ [][NextOrder]_vars

(***************************************************************************)
(* settings.checkAndUpdateTray when a storage call throws.                 *)
(***************************************************************************)
\* The storage calls of checkAndUpdateTray, in the order it awaits them.
StorageCalls ==
    {"getAppSettings", "initializeAppSettings", "incrementTrayNumber", "updateAppSettings"}

\* The row left behind when failedCall throws: the writes of the calls
\* awaited before it have happened, its own and the later ones have not.
\* incrementTrayNumber throws before its update or not at all.
SettingsAfterFailure(failedCall, t) ==
    LET row == InitializeAppSettings(GetAppSettings, GetNextTuesdayAt7PM(t))
    IN  IF failedCall \in {"getAppSettings", "initializeAppSettings"} THEN GetAppSettings
        ELSE IF failedCall = "incrementTrayNumber" THEN row
        ELSE IncrementTrayNumber(row, t)

\* checkAndUpdateTray rejected with the error of one of its storage calls:
\* initializeAppSettings is awaited only when the row is missing,
\* incrementTrayNumber and updateAppSettings only when the change is due.
CheckAndUpdateTrayFailing ==
    /\ Idle
    /\ \E failedCall \in StorageCalls :
         LET row == InitializeAppSettings(GetAppSettings, GetNextTuesdayAt7PM(now))
         IN  /\ failedCall = "initializeAppSettings" => GetAppSettings = <<>>
             /\ failedCall \in {"incrementTrayNumber", "updateAppSettings"}
                    => ChangeDue(row, now)
             /\ settings' = SettingsAfterFailure(failedCall, now)
             /\ res' = [op |-> "settings.checkAndUpdateTray: error", now |-> now,
                        entries |-> <<>>, newAchievements |-> <<>>,
                        before |-> settings, failedCall |-> failedCall]
    /\ UNCHANGED <<events, now, achievements, nextId, zone, home, calls>>

NextFailing ==
    \/ SettingsGet
    \/ CheckAndUpdateTray
    \/ CheckAndUpdateTrayFailing
    \/ TickWeeks
    \/ Deliver

SpecFailing == Init /\ [][NextFailing]_vars

(***************************************************************************)
(* The Home page: its settings query, the effect that syncs the next       *)
(* change time and the poll of checkAndUpdateTray.  The browser reads the  *)
(* server's clock and is in the server's time zone.                        *)
(***************************************************************************)
OneHour == 60 * 60 * 1000

\* getNextTuesdayAt7PMLocal() called at t.
GetNextTuesdayAt7PMLocal(t) ==
    LET d == (2 - GetDay(t) + 7) % 7
        daysUntilTuesday == IF d = 0 THEN 7 ELSE d
        nextTuesday == StartOfDay(t) + daysUntilTuesday * DayMs + 19 * 60 * 60 * 1000
    IN  IF nextTuesday <= t THEN nextTuesday + WeekMs ELSE nextTuesday

\* trpc.settings.get.useQuery(): the query is sent (on mount, on a refetch,
\* after an invalidate).
HomeSettingsQuery == SettingsGet

\* The page takes a response; the response of settings.get becomes the
\* query data `settings`.
HomeDeliver ==
    /\ ~Idle
    /\ res' = NoCall
    /\ home' = IF res.op = "settings.get" THEN [settings |-> res.result] ELSE home
    /\ UNCHANGED <<events, now, achievements, settings, nextId, zone, calls>>

\* The effect "Sync next change time with local timezone when settings
\* load": it runs with the query data it has, and calls
\* updateNextChangeTime when the stored time is more than an hour from the
\* local one.
HomeSyncEffect ==
    /\ home.settings # <<>>
    /\ LET localNextChangeTime == GetNextTuesdayAt7PMLocal(now)
           d == home.settings[1].nextTrayChangeTime - localNextChangeTime
           timeDiff == IF d < 0 THEN -d ELSE d
       IN  /\ timeDiff > OneHour
           /\ UpdateNextChangeTimeOver({localNextChangeTime})

\* checkTrayUpdate, on mount and every minute: checkAndUpdate.mutateAsync().
HomePoll == CheckAndUpdateTray

\* Instants at which the clock is observed, around the first change time.
HomePoints ==
    {0, FirstTuesday7PM - 60000, FirstTuesday7PM, FirstTuesday7PM + 60000,
     FirstTuesday7PM + WeekMs}

TickHome == TickOver(HomePoints)

NextHome ==
    \/ HomeSettingsQuery
    \/ HomeDeliver
    \/ HomeSyncEffect
    \/ HomePoll
    \/ TickHome

\* The poll is on a one-minute timer, whatever else the page does, and every
\* request is answered.
SpecHome ==
    Init /\ [][NextHome]_vars /\ SF_vars(HomePoll) /\ WF_vars(HomeDeliver)

(***************************************************************************)
(* achievements.checkAndAward as the server runs it: a call gives way to   *)
(* other calls at every await, that is around every storage access.  Each  *)
(* step below is one storage access of one call together with the         *)
(* computation that follows it up to the next await.  calls[i] holds the   *)
(* locals of call i: allEvents, existingTypes, the evaluation of today     *)
(* (perfect, <<>> before it is made), the days of the streak loop (run),   *)
(* settings (row) and newAchievements.  A call is shorter than the step of *)
(* the model's clock, so Date.now() is the same throughout a call.         *)
(***************************************************************************)
NewCall ==
    [pc |-> "getRecentTrayEvents", allEvents |-> <<>>, existingTypes |-> {},
     perfect |-> <<>>, run |-> <<>>, row |-> <<>>, newAchievements |-> <<>>]

\* Where a call awaits next, from the check named on.
PcOfMilestones(c, from) ==
    IF from <= 5 /\ Milestone(c.row, 5, "milestone_tray_5", c.existingTypes) # <<>>
    THEN "insertMilestone5"
    ELSE IF from <= 10 /\ Milestone(c.row, 10, "milestone_tray_10", c.existingTypes) # <<>>
    THEN "insertMilestone10"
    ELSE IF from <= 15 /\ Milestone(c.row, 15, "milestone_tray_15", c.existingTypes) # <<>>
    THEN "insertMilestone15"
    ELSE "done"

PcOfQuickReturn(c) ==
    IF QuickReturn(c.allEvents, c.existingTypes) # <<>>
    THEN "insertQuickReturn"
    ELSE "getAppSettings"

PcOfStreak(c) ==
    IF "streak_3" \notin c.existingTypes THEN "getDayEvents" ELSE PcOfQuickReturn(c)

PcOfPerfectDay(c) ==
    IF c.perfect[1].qualifies /\ "perfect_day" \notin c.existingTypes
    THEN "insertPerfectDay"
    ELSE PcOfStreak(c)

\* After a pass of the streak loop: the next pass, or the end of the loop.
PcOfStreakLoop(c) ==
    IF c.run[Len(c.run)].qualifies /\ Len(c.run) < 3 THEN "getDayEvents"
    ELSE IF StreakCount(c.run) >= 3 THEN "insertStreak3"
    ELSE PcOfQuickReturn(c)

\* The pending insertAchievement of a call, and where it awaits after it.
PendingAchievement(c) ==
    IF c.pc = "insertPerfectDay"
    THEN [achievementType |-> "perfect_day", metadata |-> c.perfect[1].rounded]
    ELSE IF c.pc = "insertStreak3"
    THEN [achievementType |-> "streak_3", metadata |-> 3]
    ELSE IF c.pc = "insertQuickReturn"
    THEN QuickReturn(c.allEvents, c.existingTypes)[1]
    ELSE IF c.pc = "insertMilestone5"
    THEN [achievementType |-> "milestone_tray_5", metadata |-> 5]
    ELSE IF c.pc = "insertMilestone10"
    THEN [achievementType |-> "milestone_tray_10", metadata |-> 10]
    ELSE [achievementType |-> "milestone_tray_15", metadata |-> 15]

PcAfterInsert(c) ==
    IF c.pc = "insertPerfectDay" THEN PcOfStreak(c)
    ELSE IF c.pc = "insertStreak3" THEN PcOfQuickReturn(c)
    ELSE IF c.pc = "insertQuickReturn" THEN "getAppSettings"
    ELSE IF c.pc = "insertMilestone5" THEN PcOfMilestones(c, 10)
    ELSE IF c.pc = "insertMilestone10" THEN PcOfMilestones(c, 15)
    ELSE "done"

InsertPcs ==
    {"insertPerfectDay", "insertStreak3", "insertQuickReturn",
     "insertMilestone5", "insertMilestone10", "insertMilestone15"}

\* How many calls the server runs at a time.
MaxCalls == 2

\* A checkAndAward request arrives.
AwardCall ==
    /\ Idle
    /\ Len(calls) < MaxCalls
    /\ calls' = Append(calls, NewCall)
    /\ UNCHANGED <<events, now, achievements, settings, res, nextId, zone, home>>

\* const allEvents = await getRecentTrayEvents(10000)
AwardGetRecentTrayEvents ==
    \E i \in 1..Len(calls) :
        /\ calls[i].pc = "getRecentTrayEvents"
        /\ \E allEvents \in GetRecentTrayEvents(10000) :
               calls' = [calls EXCEPT ![i].allEvents = allEvents,
                                      ![i].pc = "getAllAchievements"]
        /\ UNCHANGED <<events, now, achievements, settings, res, nextId, zone, home>>

\* const allAchievements = await getAllAchievements(), and existingTypes.
AwardGetAllAchievements ==
    \E i \in 1..Len(calls) :
        /\ calls[i].pc = "getAllAchievements"
        /\ calls' = [calls EXCEPT
                        ![i].existingTypes =
                            {GetAllAchievements[k].achievementType :
                                k \in 1..Len(GetAllAchievements)},
                        ![i].pc = "getTodayEvents"]
        /\ UNCHANGED <<events, now, achievements, settings, res, nextId, zone, home>>

\* const todayEvents = await getTrayEventsByTimeRange(startTime, endTime),
\* and today's compliance.
AwardGetTodayEvents ==
    \E i \in 1..Len(calls) :
        /\ calls[i].pc = "getTodayEvents"
        /\ LET startTime == StartOfDay(now)
               endTime == startTime + DayMs
           IN  \E todayEvents \in GetTrayEventsByTimeRange(startTime, endTime) :
                 LET c == [calls[i] EXCEPT
                              !.perfect = <<PerfectDay(todayEvents, startTime, endTime, now)>>]
                 IN  calls' = [calls EXCEPT ![i] = [c EXCEPT !.pc = PcOfPerfectDay(c)]]
        /\ UNCHANGED <<events, now, achievements, settings, res, nextId, zone, home>>

\* const dayEvents = await getTrayEventsByTimeRange(dayStart, dayEnd), and
\* the rest of that pass of the streak loop.
AwardGetDayEvents ==
    \E i \in 1..Len(calls) :
        /\ calls[i].pc = "getDayEvents"
        /\ LET daysAgo == Len(calls[i].run)
               dayStart == StartOfDay(now - daysAgo * DayMs)
               dayEnd == dayStart + DayMs
           IN  \E dayEvents \in GetTrayEventsByTimeRange(dayStart, dayEnd) :
                 LET c == [calls[i] EXCEPT
                              !.run = @ \o <<StreakDay(dayEvents, daysAgo, dayStart, dayEnd, now)>>]
                 IN  calls' = [calls EXCEPT ![i] = [c EXCEPT !.pc = PcOfStreakLoop(c)]]
        /\ UNCHANGED <<events, now, achievements, settings, res, nextId, zone, home>>

\* await insertAchievement(achievement); newAchievements.push(achievement)
AwardInsertAchievement ==
    \E i \in 1..Len(calls) :
        /\ calls[i].pc \in InsertPcs
        /\ achievements' = InsertAchievements(<<PendingAchievement(calls[i])>>)
        /\ calls' = [calls EXCEPT
                        ![i].newAchievements = Append(@, PendingAchievement(calls[i])),
                        ![i].pc = PcAfterInsert(calls[i])]
        /\ UNCHANGED <<events, now, settings, res, nextId, zone, home>>

\* const settings = await getAppSettings()
AwardGetAppSettings ==
    \E i \in 1..Len(calls) :
        /\ calls[i].pc = "getAppSettings"
        /\ LET c == [calls[i] EXCEPT !.row = GetAppSettings]
           IN  calls' = [calls EXCEPT ![i] = [c EXCEPT !.pc = PcOfMilestones(c, 5)]]
        /\ UNCHANGED <<events, now, achievements, settings, res, nextId, zone, home>>

\* return { newAchievements }
AwardReturn ==
    \E i \in 1..Len(calls) :
        /\ calls[i].pc = "done"
        /\ calls' = SubSeq(calls, 1, i - 1) \o SubSeq(calls, i + 1, Len(calls))
        /\ UNCHANGED <<events, now, achievements, settings, res, nextId, zone, home>>

MaxServedEvents == 2

ServedTimes == {0, 60000}

\* Midnight of day 0, and 22:00 of day 2.
ServedPoints == {0, 2 * DayMs + 22 * 60 * 60 * 1000}

\* The log and the settings are written, the page takes their responses and
\* the clock moves while no checkAndAward call is in flight.
LogEventServed == calls = <<>> /\ LogEventOver(MaxServedEvents, ServedTimes)

TickServed == calls = <<>> /\ TickOver(ServedPoints)

SettingsGetServed == calls = <<>> /\ SettingsGet

SettingsUpdateServed == calls = <<>> /\ SettingsUpdateOver({5}, {})

DeliverServed == calls = <<>> /\ Deliver

NextServed ==
    \/ LogEventServed
    \/ TickServed
    \/ SettingsGetServed
    \/ SettingsUpdateServed
    \/ DeliverServed
    \/ AwardCall
    \/ AwardGetRecentTrayEvents
    \/ AwardGetAllAchievements
    \/ AwardGetTodayEvents
    \/ AwardGetDayEvents
    \/ AwardInsertAchievement
    \/ AwardGetAppSettings
    \/ AwardReturn

SpecServed == Init /\ [][NextServed]_vars

(***************************************************************************)
(* Properties of the compliance procedures.                                *)
(***************************************************************************)
ComplianceOps == {"getToday", "getDaily", "getHistory"}

EntryIndexes == 1..Len(res.entries)

RECURSIVE SumFn(_)
SumFn(f) ==
    IF DOMAIN f = {} THEN 0
    ELSE LET x == CHOOSE y \in DOMAIN f : TRUE
         IN  f[x] + SumFn([y \in DOMAIN f \ {x} |-> f[y]])

\* The positions of a scanned sequence where a remove is directly followed
\* by an insert: the closed out intervals.
ClosedPairs(s) ==
    {i \in 1..(Len(s) - 1) :
        s[i].eventType = "remove" /\ s[i + 1].eventType = "insert"}

\* The length of [from, to] cut to [lo, hi], zero when empty.
Clipped(from, to, lo, hi) == Max(0, Min(to, hi) - Max(from, lo))

\* C1: wearTime of getToday lies in [0, elapsedToday], and wearTime of
\* getDaily and of every getHistory entry lies in [0, 24 h].
C1_WearTimeWithinWindow ==
    /\ res.op = "getToday" =>
          \A i \in EntryIndexes :
              /\ 0 <= res.entries[i].wearTime
              /\ res.entries[i].wearTime <= res.entries[i].elapsedToday
    /\ res.op \in {"getDaily", "getHistory"} =>
          \A i \in EntryIndexes :
              /\ 0 <= res.entries[i].wearTime
              /\ res.entries[i].wearTime <= DayMs

\* getToday answered for a log with a re-insertion stamped later than the
\* server clock, and part of the elapsed day counted as out time.
C1_Witness ==
    /\ res.op = "getToday"
    /\ \E k \in 1..Len(res.entries[1].scanned) :
           res.entries[1].scanned[k].timestamp > res.now
    /\ res.entries[1].outTime > 0
    /\ res.entries[1].wearTime > 0
    /\ res.entries[1].wearTime < res.entries[1].elapsedToday

\* C2: outTime + wearTime is exactly 24 h for getDaily and every getHistory
\* entry, and exactly elapsedToday (the time since local midnight) for
\* getToday.
C2_OutPlusWearIsWindow ==
    /\ res.op = "getToday" =>
          \A i \in EntryIndexes :
              /\ res.entries[i].outTime + res.entries[i].wearTime
                     = res.entries[i].elapsedToday
              /\ res.entries[i].elapsedToday = res.now - res.entries[i].startTime
    /\ res.op \in {"getDaily", "getHistory"} =>
          \A i \in EntryIndexes :
              res.entries[i].outTime + res.entries[i].wearTime = DayMs

\* getToday answered part-way through the day with the tray still out.
C2_Witness ==
    /\ res.op = "getToday"
    /\ res.entries[1].isCurrentlyOut
    /\ res.entries[1].outTime > 0
    /\ res.entries[1].wearTime > 0
    /\ res.entries[1].elapsedToday < DayMs

\* C3: compliancePercentage of getToday, getDaily and every getHistory
\* entry is a number from 0 to 100 (here in tenths of a percent).
C3_PercentageInRange ==
    res.op \in ComplianceOps =>
        \A i \in EntryIndexes :
            /\ res.entries[i].compliancePercentage.kind = "num"
            /\ res.entries[i].compliancePercentage.tenths >= 0
            /\ res.entries[i].compliancePercentage.tenths <= 1000

\* C4: a day window [startTime, endTime) that holds no event is reported
\* with outTime = 0 and compliancePercentage = 100.
C4_EmptyDayIsPerfect ==
    res.op \in ComplianceOps =>
        \A i \in EntryIndexes :
            (\A k \in 1..Len(events) :
                 ~(/\ events[k].timestamp >= res.entries[i].startTime
                   /\ events[k].timestamp < res.entries[i].endTime))
            => /\ res.entries[i].outTime = 0
               /\ res.entries[i].compliancePercentage = [kind |-> "num", tenths |-> 1000]

\* The sum of the closed out intervals of a scanned sequence, each cut to
\* [lo, hi].
ClosedOutTime(s, lo, hi) ==
    SumFn([i \in ClosedPairs(s) |->
              Clipped(s[i].timestamp, s[i + 1].timestamp, lo, hi)])

\* The upper end to which a call site counts closed intervals: getToday
\* cuts them at the server clock, the others count them as logged.
ClosedUpTo(i) ==
    IF res.op = "getToday" THEN res.now ELSE res.entries[i].endTime

EndsOut(s) == s # <<>> /\ s[Len(s)].eventType = "remove"

\* C5: every compliance call site scans the events of its window in
\* ascending timestamp order; the out time of the closed intervals is the
\* sum over the removes directly followed by an insert (so of two removes in
\* a row the later one starts the interval and an insert with no removal
\* pending adds nothing), and the pair remove at 0, insert at 600000 gives
\* outTime = 600000.
C5_ScanLastRemoveWins ==
    res.op \in ComplianceOps =>
        \A i \in EntryIndexes :
            LET e == res.entries[i]
                s == e.scanned
            IN  /\ \A k \in 1..(Len(s) - 1) : s[k].timestamp <= s[k + 1].timestamp
                /\ Range(s) \subseteq Range(events)
                /\ Len(s) = Cardinality(Range(s))
                /\ {ev \in Range(events) :
                       /\ ev.timestamp >= e.startTime
                       /\ ev.timestamp < e.endTime} \subseteq Range(s)
                /\ ~EndsOut(s) =>
                      e.outTime = ClosedOutTime(s, e.startTime, ClosedUpTo(i))
                /\ (/\ Len(s) = 2
                    /\ s[1].eventType = "remove" /\ s[1].timestamp = 0
                    /\ s[2].eventType = "insert" /\ s[2].timestamp = 600000
                    /\ res.now >= 600000)
                   => e.outTime = 600000

\* getDaily answered for a day with two removes in a row and then an insert.
C5_Witness ==
    /\ res.op = "getDaily"
    /\ Len(res.entries[1].scanned) = 3
    /\ res.entries[1].scanned[1].eventType = "remove"
    /\ res.entries[1].scanned[2].eventType = "remove"
    /\ res.entries[1].scanned[3].eventType = "insert"
    /\ res.entries[1].scanned[1].timestamp < res.entries[1].scanned[2].timestamp
    /\ res.entries[1].scanned[2].timestamp < res.entries[1].scanned[3].timestamp
    /\ res.entries[1].outTime
           = res.entries[1].scanned[3].timestamp - res.entries[1].scanned[2].timestamp

\* The tray is out when the window starts: the log has events before
\* startTime and the latest of them are removes.
OutAtStart(startTime) ==
    /\ \E k \in 1..Len(events) : events[k].timestamp < startTime
    /\ \A k \in 1..Len(events) :
           (/\ events[k].timestamp < startTime
            /\ \A j \in 1..Len(events) :
                   events[j].timestamp < startTime
                       => events[j].timestamp <= events[k].timestamp)
           => events[k].eventType = "remove"

\* C6: an out interval that began before the window is counted from the
\* window start: with the tray out at startTime, a window whose only event
\* is an insert at i (startTime < i <= min(now, endTime)) has
\* outTime = i - startTime, and a window without events has
\* outTime = min(now, endTime) - startTime.
C6_CarriedIntervalCounted ==
    res.op \in ComplianceOps =>
        \A i \in EntryIndexes :
            LET e == res.entries[i]
                s == e.scanned
                upTo == Min(res.now, e.endTime)
            IN  (OutAtStart(e.startTime) /\ upTo > e.startTime) =>
                    /\ s = <<>> => e.outTime = upTo - e.startTime
                    /\ (/\ Len(s) = 1
                        /\ s[1].eventType = "insert"
                        /\ s[1].timestamp > e.startTime
                        /\ s[1].timestamp <= upTo)
                       => e.outTime = s[1].timestamp - e.startTime

PlainLog ==
    /\ \A k \in 1..Len(events) : events[k].timestamp <= now
    /\ \A j, k \in 1..Len(events) :
           j # k => events[j].timestamp # events[k].timestamp

\* C8: getToday reports isCurrentlyOut exactly when the latest event of the
\* whole log is a remove, as getLastEvent shows it (stated for logs without
\* future or equal timestamps).
C8_CurrentlyOutMatchesLastEvent ==
    (res.op = "getToday" /\ PlainLog) =>
        \A last \in GetLastTrayEvent :
            res.entries[1].isCurrentlyOut
                = (last # <<>> /\ last[1].eventType = "remove")

\* C9: the out time of a window never exceeds the part of the window that
\* has already passed, max(0, min(now, endTime) - startTime).
C9_NoOutTimeAfterNow ==
    res.op \in ComplianceOps =>
        \A i \in EntryIndexes :
            res.entries[i].outTime
                <= Max(0, Min(res.now, res.entries[i].endTime)
                          - res.entries[i].startTime)

\* C10: for today's window, the same log and the same clock, every call
\* site computes the same out time: whatever one of getToday, getDaily,
\* getHistory or checkAndAward (perfect day, streak day 0) reported is what
\* each of the others computes.
C10_CallSitesAgree ==
    res.op \in ComplianceOps \cup {"checkAndAward"} =>
        \A i \in EntryIndexes :
            LET e == res.entries[i]
                startTime == StartOfDay(now)
                endTime == startTime + DayMs
            IN  e.startTime = startTime =>
                    \A fetched \in GetTrayEventsByTimeRange(startTime, endTime) :
                        /\ e.outTime = TodayResult(fetched, startTime, endTime, now).outTime
                        /\ e.outTime = DailyResult(fetched, startTime, endTime, now).outTime
                        /\ e.outTime = HistoryEntry(fetched, startTime, endTime, now).outTime
                        /\ e.outTime = PerfectDay(fetched, startTime, endTime, now).outTime
                        /\ e.outTime = StreakDay(fetched, 0, startTime, endTime, now).outTime

(***************************************************************************)
(* Properties of achievements.checkAndAward.                               *)
(***************************************************************************)
TypesOf(list) == {list[i].achievementType : i \in 1..Len(list)}

\* While the response of a checkAndAward call is pending: the achievements
\* recorded before that call.
RecordedBefore ==
    SubSeq(achievements, 1, Len(achievements) - Len(res.newAchievements))

\* C11: the achievement store holds at most one record per achievementType,
\* a checkAndAward call's newAchievements lists only types that were not
\* recorded before the call, and a second call made right after it, with
\* events, settings and time unchanged, awards nothing.
C11_AwardedOnce ==
    /\ \A i, j \in 1..Len(achievements) :
         i # j => achievements[i].achievementType # achievements[j].achievementType
    /\ res.op = "checkAndAward" =>
         /\ TypesOf(res.newAchievements) \cap TypesOf(RecordedBefore) = {}
         /\ \A second \in AwardOutcomes : second.newAchievements = <<>>

\* Today's pro-rated compliance, min(100, 100 * wearTime / proRatedTarget),
\* as getToday computes it from the rows the call scanned, is at least pct.
ProRatedAtLeast(scanned, t, pct) ==
    LET today == TodayResult(scanned, StartOfDay(t), StartOfDay(t) + DayMs, t)
    IN  /\ today.elapsedToday > 0
        /\ (today.wearTime \div Gran) * (DayMs \div Common) * 100
             >= pct * (today.elapsedToday \div Gran) * (RecommendedWearTime \div Common)

\* C12: checkAndAward awards perfect_day if and only if perfect_day is not
\* already recorded and today's pro-rated compliance, as getToday computes it
\* for the same now, is at least 95 %.
C12_PerfectDayIsProRated ==
    res.op = "checkAndAward" =>
        ("perfect_day" \in TypesOf(res.newAchievements)
            <=> /\ "perfect_day" \notin TypesOf(RecordedBefore)
                /\ ProRatedAtLeast(res.entries[1].scanned, res.now, 95))

\* The days the streak loop of the pending checkAndAward call evaluated,
\* today first.
StreakEntries == SubSeq(res.entries, 2, Len(res.entries))

\* The out time of a day reconstructed from the rows scanned for it: the
\* removes directly followed by an insert, and a last removal still open
\* until the server clock or the end of the day.
DayOutTime(e) ==
    LET s == e.scanned
    IN  ClosedOutTime(s, e.startTime, e.endTime)
        + (IF EndsOut(s)
           THEN Max(0, Min(res.now, e.endTime) - s[Len(s)].timestamp)
           ELSE 0)

\* The day has compliance >= 85 %: today against the pro-rated target
\* (elapsed / 24 h) * 22.5 h, an earlier day against 22.5 h.
DayCompliant(e) ==
    LET elapsed == res.now - e.startTime
    IN  IF e.daysAgo = 0
        THEN /\ elapsed > 0
             /\ ((Min(elapsed, DayMs) - DayOutTime(e)) \div Gran) * (DayMs \div Common) * 100
                  >= 85 * (elapsed \div Gran) * (RecommendedWearTime \div Common)
        ELSE ((DayMs - DayOutTime(e)) \div Gran) * 100
                  >= 85 * (RecommendedWearTime \div Gran)

QuickReturnPairs(s) ==
    {i \in 1..(Len(s) - 1) :
        /\ s[i].eventType = "remove" /\ s[i + 1].eventType = "insert"
        /\ s[i].trayNumber = s[i + 1].trayNumber
        /\ s[i + 1].timestamp - s[i].timestamp < 5 * 60 * 1000}

MilestoneTypes ==
    [n \in {5, 10, 15} |->
        IF n = 5 THEN "milestone_tray_5"
        ELSE IF n = 10 THEN "milestone_tray_10" ELSE "milestone_tray_15"]

\* C15: after a checkAndAward call that finds a settings record, for each N
\* of 5, 10, 15 the type milestone_tray_N is recorded if and only if it was
\* recorded before the call or currentTrayNumber >= N, so a call at tray 10
\* with none recorded awards milestone_tray_5 and milestone_tray_10; when no
\* settings record exists the call awards no milestone.
C15_TrayMilestones ==
    res.op = "checkAndAward" =>
        IF settings = <<>>
        THEN \A n \in DOMAIN MilestoneTypes :
                 MilestoneTypes[n] \notin TypesOf(res.newAchievements)
        ELSE /\ \A n \in DOMAIN MilestoneTypes :
                  (MilestoneTypes[n] \in TypesOf(achievements))
                    <=> \/ MilestoneTypes[n] \in TypesOf(RecordedBefore)
                        \/ settings[1].currentTrayNumber >= n
             /\ \A n \in DOMAIN MilestoneTypes :
                  (MilestoneTypes[n] \in TypesOf(res.newAchievements))
                    => MilestoneTypes[n] \notin TypesOf(RecordedBefore)
             /\ (/\ settings[1].currentTrayNumber = 10
                 /\ \A n \in DOMAIN MilestoneTypes :
                      MilestoneTypes[n] \notin TypesOf(RecordedBefore))
                => {"milestone_tray_5", "milestone_tray_10"}
                     = TypesOf(res.newAchievements) \cap {MilestoneTypes[n] : n \in {5, 10, 15}}

\* checkAndAward answered at tray 10 with no milestone recorded before: it
\* awards milestone_tray_5 and milestone_tray_10.
C15_Witness ==
    /\ res.op = "checkAndAward"
    /\ settings # <<>>
    /\ settings[1].currentTrayNumber = 10
    /\ \A n \in DOMAIN MilestoneTypes : MilestoneTypes[n] \notin TypesOf(RecordedBefore)
    /\ "milestone_tray_5" \in TypesOf(res.newAchievements)
    /\ "milestone_tray_10" \in TypesOf(res.newAchievements)
    /\ "milestone_tray_15" \notin TypesOf(res.newAchievements)

(***************************************************************************)
(* Properties of the settings router.  While a response of the router is   *)
(* pending, res.before is the settings record as the call found it.        *)
(***************************************************************************)
\* C16: checkAndUpdateTray called when a settings record exists and
\* now < nextTrayChangeTime returns changed = false and leaves
\* currentTrayNumber, totalTrays, nextTrayChangeTime and lastTrayChangeTime
\* as they were.
C16_EarlyCheckIsNoOp ==
    (/\ res.op = "settings.checkAndUpdateTray"
     /\ res.before # <<>>
     /\ res.now < res.before[1].nextTrayChangeTime)
    => /\ res.changed = FALSE
       /\ settings # <<>>
       /\ settings[1].currentTrayNumber = res.before[1].currentTrayNumber
       /\ settings[1].totalTrays = res.before[1].totalTrays
       /\ settings[1].nextTrayChangeTime = res.before[1].nextTrayChangeTime
       /\ settings[1].lastTrayChangeTime = res.before[1].lastTrayChangeTime

\* checkAndUpdateTray answered before the change time, on a record that an
\* earlier check had incremented.
C16_Witness ==
    /\ res.op = "settings.checkAndUpdateTray"
    /\ res.before # <<>>
    /\ res.now < res.before[1].nextTrayChangeTime
    /\ res.before[1].lastTrayChangeTime # <<>>
    /\ res.changed = FALSE
    /\ settings = res.before

\* C17: every checkAndUpdateTray call that increments was due
\* (now >= nextTrayChangeTime), raises currentTrayNumber by at most one and
\* sets nextTrayChangeTime strictly later than its now, so that a call made
\* before that time does not increment; a call that reports no change leaves
\* currentTrayNumber alone.  This also holds when more than one weekly change
\* time has passed.
C17_OneIncrementPerDueTime ==
    res.op = "settings.checkAndUpdateTray" =>
        /\ settings # <<>>
        /\ res.changed =>
             /\ res.before # <<>>
             /\ res.now >= res.before[1].nextTrayChangeTime
             /\ settings[1].currentTrayNumber - res.before[1].currentTrayNumber \in {0, 1}
             /\ settings[1].nextTrayChangeTime > res.now
             /\ res.nextChangeTime = settings[1].nextTrayChangeTime
             /\ ~ChangeDue(settings, now)
        /\ (~res.changed /\ res.before # <<>>) =>
             settings[1].currentTrayNumber = res.before[1].currentTrayNumber

\* checkAndUpdateTray answered more than a week after the change time it
\* found: one increment, and the next change time lies ahead.
C17_Witness ==
    /\ res.op = "settings.checkAndUpdateTray"
    /\ res.changed
    /\ res.now >= res.before[1].nextTrayChangeTime + WeekMs
    /\ settings[1].currentTrayNumber = res.before[1].currentTrayNumber + 1
    /\ settings[1].nextTrayChangeTime > now

\* C18: once the settings record exists, 1 <= currentTrayNumber <=
\* totalTrays = 16 whatever settings.get, checkAndUpdateTray, settings.update
\* (currentTrayNumber input within 1..16) and updateNextChangeTime do; the
\* increment stops at totalTrays.
C18_TrayNumberInRange ==
    settings # <<>> =>
        /\ settings[1].totalTrays = 16
        /\ settings[1].currentTrayNumber >= 1
        /\ settings[1].currentTrayNumber <= settings[1].totalTrays

\* A due checkAndUpdateTray answered at the last tray: the number stays 16.
C18_Witness ==
    /\ res.op = "settings.checkAndUpdateTray"
    /\ res.changed
    /\ res.before[1].currentTrayNumber = 16
    /\ settings[1].currentTrayNumber = 16

\* C19: settings.get and checkAndUpdateTray on a missing record create it
\* with currentTrayNumber = 2, totalTrays = 16 and lastTrayChangeTime = null;
\* no call of the router removes the record, settings.get leaves an existing
\* record as it is, and initializeAppSettings run against an existing record
\* leaves its four fields unchanged.
C19_CreatedOnce ==
    /\ (res.op \in {"settings.get", "settings.checkAndUpdateTray"} /\ res.before = <<>>)
         => /\ settings # <<>>
            /\ settings[1].currentTrayNumber = 2
            /\ settings[1].totalTrays = 16
            /\ settings[1].lastTrayChangeTime = <<>>
    /\ (res.op \in {"settings.get", "settings.checkAndUpdateTray", "settings.update",
                    "settings.updateNextChangeTime"} /\ res.before # <<>>)
         => settings # <<>>
    /\ (res.op = "settings.get" /\ res.before # <<>>) => settings = res.before
    /\ settings # <<>> =>
         \A t \in WeekPoints :
             InitializeAppSettings(settings, GetNextTuesdayAt7PM(t)) = settings

\* settings.get answered for a record that was created and has since been
\* incremented: it is returned as it was.
C19_Witness ==
    /\ res.op = "settings.get"
    /\ res.before # <<>>
    /\ res.before[1].currentTrayNumber # 2
    /\ res.before[1].lastTrayChangeTime # <<>>
    /\ settings = res.before
    /\ res.result = settings

(***************************************************************************)
(* Properties of tray.cancelRemoveEvent.                                   *)
(***************************************************************************)
\* While the response of a cancelRemoveEvent call is pending: the rows the
\* call found under its eventId.
CancelTargets == {e \in Range(res.before) : e.id = res.eventId}

\* C20: cancelRemoveEvent(eventId) deletes the event if and only if it
\* exists, is a remove, and no more than 60 seconds have passed since the
\* event was created; otherwise it reports a failure and leaves the event
\* log unchanged.
C20_CancelWithinGraceWindow ==
    res.op = "tray.cancelRemoveEvent" =>
        IF \E e \in CancelTargets :
              e.eventType = "remove" /\ res.now - e.createdAt <= 60 * 1000
        THEN /\ res.error = ""
             /\ Range(events) = Range(res.before) \ CancelTargets
        ELSE /\ res.error # ""
             /\ events = res.before

(***************************************************************************)
(* Properties of the analytics procedures.                                 *)
(***************************************************************************)
AnalyticsOps == {"analytics.byTray", "analytics.byTimePeriod"}

GroupIndexes == 1..Len(res.groups)

\* The full lengths of the closed out intervals of a scanned sequence.
ClosedDuration(s) ==
    SumFn([i \in ClosedPairs(s) |-> s[i + 1].timestamp - s[i].timestamp])

\* C21: the groups of byTray and byTimePeriod divide the fetched rows among
\* them (byTray by tray number); in every group removeCount is the number
\* of its remove events, totalDuration is the sum of the lengths of the
\* closed intervals of the group's own events in ascending timestamp order
\* (an unmatched trailing remove adds nothing), and avgDuration is
\* totalDuration / removeCount, or 0 when removeCount = 0; the pairs
\* (0, 100000) and (7200000, 7400000) on tray 3 give 2, 300000 and 150000.
C21_GroupStatistics ==
    res.op \in AnalyticsOps =>
        /\ UNION {Range(res.groups[j].scanned) : j \in GroupIndexes} = Range(res.fetched)
        /\ \A j, k \in GroupIndexes :
               j # k => Range(res.groups[j].scanned) \cap Range(res.groups[k].scanned) = {}
        /\ \A j \in GroupIndexes :
            LET g == res.groups[j]
                s == g.scanned
            IN  /\ s # <<>>
                /\ Len(s) = Cardinality(Range(s))
                /\ \A k \in 1..(Len(s) - 1) : s[k].timestamp <= s[k + 1].timestamp
                /\ res.op = "analytics.byTray" =>
                       Range(s) = {e \in Range(events) : e.trayNumber = g.key}
                /\ g.removeCount = Cardinality({e \in Range(s) : e.eventType = "remove"})
                /\ g.totalDuration = ClosedDuration(s)
                /\ g.removeCount = 0 => g.avgDuration = [num |-> 0, den |-> 1]
                /\ g.removeCount > 0 =>
                       /\ g.avgDuration.den > 0
                       /\ g.avgDuration.num * g.removeCount
                              = g.totalDuration * g.avgDuration.den
                /\ (/\ Len(s) = 4
                    /\ g.key = 3
                    /\ \A k \in 1..4 : s[k].trayNumber = 3
                    /\ s[1].eventType = "remove" /\ s[1].timestamp = 0
                    /\ s[2].eventType = "insert" /\ s[2].timestamp = 100000
                    /\ s[3].eventType = "remove" /\ s[3].timestamp = 7200000
                    /\ s[4].eventType = "insert" /\ s[4].timestamp = 7400000)
                   => /\ g.removeCount = 2
                      /\ g.totalDuration = 300000
                      /\ g.avgDuration = [num |-> 150000, den |-> 1]

\* byTray answered for two groups: tray 3 with a closed interval of 100000 ms
\* and a trailing remove, tray 4 with an insert alone.
C21_Witness ==
    /\ res.op = "analytics.byTray"
    /\ Len(res.groups) = 2
    /\ res.groups[1].key = 3
    /\ Len(res.groups[1].scanned) = 3
    /\ res.groups[1].scanned[3].eventType = "remove"
    /\ res.groups[1].removeCount = 2
    /\ res.groups[1].totalDuration = 100000
    /\ res.groups[1].avgDuration = [num |-> 50000, den |-> 1]
    /\ res.groups[2].key = 4
    /\ res.groups[2].removeCount = 0
    /\ res.groups[2].avgDuration = [num |-> 0, den |-> 1]

(***************************************************************************)
(* Properties of the windows and of the order of the rows.                 *)
(***************************************************************************)
\* C22: the rows fetched for the day window of getDaily and of every
\* getHistory entry are exactly the events with
\* startTime <= timestamp < endTime, so that an event on a day boundary is
\* scanned for one of the two adjacent days only.
C22_HalfOpenWindows ==
    res.op \in {"getDaily", "getHistory"} =>
        \A i \in EntryIndexes :
            Range(res.entries[i].scanned)
                = {e \in Range(events) :
                       /\ e.timestamp >= res.entries[i].startTime
                       /\ e.timestamp < res.entries[i].endTime}

\* C23: when the pro-rated target is not positive (the server clock reads
\* the start of the day), getToday reports compliancePercentage = 100 and
\* the streak loop counts today as a day of 100 % compliance.
C23_NoTargetIsFullCompliance ==
    /\ (res.op = "getToday" /\ res.entries[1].proRatedTarget <= 0) =>
           res.entries[1].compliancePercentage = [kind |-> "num", tenths |-> 1000]
    /\ res.op = "checkAndAward" =>
           \A i \in 1..Len(StreakEntries) :
               (StreakEntries[i].daysAgo = 0 /\ res.now = StreakEntries[i].startTime)
                   => StreakEntries[i].qualifies

\* C24 as stated: one hour into the day with no out time, getToday reports
\* proRatedTarget = 937500 and compliancePercentage = 100.
C24_TargetOfOneHourAsStated ==
    (/\ res.op = "getToday"
     /\ res.entries[1].elapsedToday = 3600000
     /\ res.entries[1].outTime = 0)
    => /\ res.entries[1].proRatedTarget = 937500
       /\ res.entries[1].compliancePercentage = [kind |-> "num", tenths |-> 1000]

\* C24: getToday reports proRatedTarget = (elapsedToday / 24 h) * 22.5 h,
\* rounded to the nearest millisecond; one hour into the day with no out
\* time that is 3375000, with compliancePercentage = 100.
C24_ProRatedTarget ==
    res.op = "getToday" =>
        LET e == res.entries[1]
        IN  /\ e.proRatedTarget * 16 - e.elapsedToday * 15 <= 8
            /\ e.elapsedToday * 15 - e.proRatedTarget * 16 < 8
            /\ (e.elapsedToday = 3600000 /\ e.outTime = 0)
                   => /\ e.proRatedTarget = 3375000
                      /\ e.compliancePercentage = [kind |-> "num", tenths |-> 1000]

\* getToday answered one hour into a day without out time.
C24_Witness ==
    /\ res.op = "getToday"
    /\ res.entries[1].elapsedToday = 3600000
    /\ res.entries[1].outTime = 0
    /\ res.entries[1].proRatedTarget = 3375000

\* The rows of S by ascending timestamp, rows of one timestamp by ascending
\* id (ids are handed out in insertion order).
RECURSIVE InInsertionOrder(_)
InInsertionOrder(S) ==
    IF S = {} THEN <<>>
    ELSE LET e == CHOOSE x \in S :
                      \A y \in S : \/ x.timestamp < y.timestamp
                                   \/ x.timestamp = y.timestamp /\ x.id <= y.id
         IN  <<e>> \o InInsertionOrder(S \ {e})

\* C25: events with equal timestamps are processed in insertion order:
\* getDaily scans the rows of its window by timestamp and then id, so its
\* outTime is the one value that order gives, and getLastEvent answers the
\* row inserted last among those with the greatest timestamp.
C25_TiesInInsertionOrder ==
    /\ res.op = "getDaily" =>
           LET e == res.entries[1]
               ordered == InInsertionOrder(Range(e.scanned))
           IN  /\ e.scanned = ordered
               /\ e.outTime
                      = DailyResult(ordered, e.startTime, e.endTime, res.now).outTime
    /\ (res.op = "tray.getLastEvent" /\ events # <<>>) =>
           LET ordered == InInsertionOrder(Range(events))
           IN  res.result = <<ordered[Len(ordered)]>>

\* The local date (as a day number) of the Sunday that starts the local
\* week containing t.
LocalSunday(t) ==
    LET d == (t + zone) \div DayMs
    IN  d - ((4 + d) % 7)

\* C26: grouped by week, every event lies in the group whose key is the
\* date of the local Sunday starting the event's week, so two events of one
\* Sunday-started local week are in one group.
C26_WeekKeyIsLocalSunday ==
    (res.op = "analytics.byTimePeriod" /\ res.groupBy = "week") =>
        /\ \A j \in GroupIndexes :
               \A e \in Range(res.groups[j].scanned) :
                   res.groups[j].key = LocalSunday(e.timestamp)
        /\ \A j, k \in GroupIndexes :
               \A e \in Range(res.groups[j].scanned), f \in Range(res.groups[k].scanned) :
                   LocalSunday(e.timestamp) = LocalSunday(f.timestamp) => j = k

(***************************************************************************)
(* More properties of the settings procedures.                             *)
(***************************************************************************)
\* C30: checkAndUpdateTray reports changed = true only when it raised
\* currentTrayNumber by exactly one; a due check that finds
\* currentTrayNumber = totalTrays reports changed = false and leaves
\* lastTrayChangeTime alone.
C30_ChangedMeansIncremented ==
    res.op = "settings.checkAndUpdateTray" =>
        /\ res.changed =>
               /\ res.before # <<>>
               /\ settings[1].currentTrayNumber = res.before[1].currentTrayNumber + 1
        /\ (/\ res.before # <<>>
            /\ res.before[1].currentTrayNumber = res.before[1].totalTrays
            /\ ChangeDue(res.before, res.now))
           => /\ ~res.changed
              /\ settings[1].lastTrayChangeTime = res.before[1].lastTrayChangeTime

\* C29: a checkAndUpdateTray call that fails with a storage error leaves the
\* settings record as the call found it, and no call increments
\* currentTrayNumber when the record already carries a change made at or
\* after the due time (a retry after a failure does not increment a second
\* time for the same due time).
C29_FailureLeavesSettings ==
    /\ res.op = "settings.checkAndUpdateTray: error" => settings = res.before
    /\ (/\ res.op = "settings.checkAndUpdateTray"
        /\ res.before # <<>>
        /\ res.before[1].lastTrayChangeTime # <<>>
        /\ res.before[1].lastTrayChangeTime[1] >= res.before[1].nextTrayChangeTime)
       => settings[1].currentTrayNumber = res.before[1].currentTrayNumber

\* The change is due and there is a next tray to change to.
IncrementDue ==
    /\ settings # <<>>
    /\ now >= settings[1].nextTrayChangeTime
    /\ settings[1].currentTrayNumber < settings[1].totalTrays

\* C27: with the Home page open, a change that is due stays due until
\* currentTrayNumber is incremented for it: no step (in particular not the
\* sync effect's updateNextChangeTime) moves nextTrayChangeTime ahead of the
\* clock while the increment is still owed.
C27_DueIncrementNotSkipped ==
    [][IncrementDue =>
          \/ now' >= settings'[1].nextTrayChangeTime
          \/ settings'[1].currentTrayNumber = settings[1].currentTrayNumber + 1]_vars

(***************************************************************************)
(* Properties of overlapping checkAndAward calls.                          *)
(***************************************************************************)
\* C28: whatever the interleaving of the steps of the checkAndAward calls
\* in flight, the achievements table never holds two rows of one
\* achievementType.
C28_OneRowPerType ==
    \A j, k \in 1..Len(achievements) :
        achievements[j].achievementType = achievements[k].achievementType => j = k

====
